---- MODULE Spec2Model ----
(***************************************************************************)
(* A model of questdb-mcp: the QuestDBClient adapter (query, insert,       *)
(* listTables, describeTable, close), the Logger and the four tool         *)
(* handlers that wrap the adapter.                                         *)
(*                                                                         *)
(* Text is a sequence of strings.  Query strings and table names are       *)
(* sequences of one-character strings, so trimming, upper-casing, the      *)
(* SELECT gate and the identifier pattern work on characters.  Messages    *)
(* built by template literals are the concatenation of their parts.        *)
(*                                                                         *)
(* The external collaborators (the HTTP endpoint, the line-protocol        *)
(* Sender, the protocol server's logging channel) answer                   *)
(* nondeterministically: every call into them either succeeds or throws.   *)
(***************************************************************************)
EXTENDS Integers, Sequences, FiniteSets, TLC

\* ------------------------------------------------------------------ bounds

\* Longest table name given to describe_table.
MaxNameLen == 3
\* Most Sender objects created in one run.
MaxSenders == 2
\* Most rows in a dataset answered by the query endpoint.
MaxRows == 2
\* Most data fields in the insert records enumerated field by field.
MaxFields == 1
\* Latest reading of the database's clock.
MaxClock == 1

\* ------------------------------------------------------------------- text

LowerCase == <<"a", "b", "c", "d", "e", "f", "g", "h", "i", "j", "k", "l", "m",
               "n", "o", "p", "q", "r", "s", "t", "u", "v", "w", "x", "y", "z">>

UpperCase == <<"A", "B", "C", "D", "E", "F", "G", "H", "I", "J", "K", "L", "M",
               "N", "O", "P", "Q", "R", "S", "T", "U", "V", "W", "X", "Y", "Z">>

Digits == {"0", "1", "2", "3", "4", "5", "6", "7", "8", "9"}

WhiteSpace == {" ", "\t", "\n", "\r"}

Range(s) == {s[i] : i \in 1..Len(s)}

\* String.prototype.toUpperCase, character by character.
UpperChar(ch) ==
    IF \E i \in 1..Len(LowerCase) : LowerCase[i] = ch
    THEN UpperCase[CHOOSE i \in 1..Len(LowerCase) : LowerCase[i] = ch]
    ELSE ch

ToUpperCase(s) == [i \in 1..Len(s) |-> UpperChar(s[i])]

\* String.prototype.trim: drop leading and trailing white space.
RECURSIVE TrimStart(_)
TrimStart(s) ==
    IF s # <<>> /\ Head(s) \in WhiteSpace THEN TrimStart(Tail(s)) ELSE s

RECURSIVE TrimEnd(_)
TrimEnd(s) ==
    IF s # <<>> /\ s[Len(s)] \in WhiteSpace
    THEN TrimEnd(SubSeq(s, 1, Len(s) - 1))
    ELSE s

Trim(s) == TrimEnd(TrimStart(s))

\* String.prototype.startsWith.
StartsWith(s, p) == Len(s) >= Len(p) /\ SubSeq(s, 1, Len(p)) = p

\* `part` occurs in `s` as a contiguous run.
Contains(s, part) ==
    \E i \in 0..(Len(s) - Len(part)) : SubSeq(s, i + 1, i + Len(part)) = part

\* A number interpolated into a template literal.
NumText(n) == <<ToString(n)>>

SELECT == <<"S", "E", "L", "E", "C", "T">>

\* The gate without the trim.
IsSelectUntrimmed(query) == StartsWith(ToUpperCase(query), SELECT)

\* questdb-client.ts:66-67, the safety gate of query().
IsSelect(query) == StartsWith(ToUpperCase(Trim(query)), SELECT)

\* questdb-client.ts:178, /^[a-zA-Z_][a-zA-Z0-9_]*$/.test(table).
IsLetter(ch) == ch \in Range(LowerCase) \cup Range(UpperCase)

\* The pattern without its end anchor: only the first character is checked.
ValidTableNameUnanchored(table) ==
    table # <<>> /\ (IsLetter(table[1]) \/ table[1] = "_")

ValidTableName(table) ==
    /\ table # <<>>
    /\ IsLetter(table[1]) \/ table[1] = "_"
    /\ \A i \in 2..Len(table) : IsLetter(table[i]) \/ table[i] \in Digits \/ table[i] = "_"

\* questdb-client.ts:160.
ListTablesQuery ==
    <<"S", "E", "L", "E", "C", "T", " ", "t", "a", "b", "l", "e", "_", "n", "a",
      "m", "e", " ", "F", "R", "O", "M", " ", "t", "a", "b", "l", "e", "s", "(",
      ")", " ", "O", "R", "D", "E", "R", " ", "B", "Y", " ", "t", "a", "b", "l",
      "e", "_", "n", "a", "m", "e">>

\* questdb-client.ts:182.
DescribeQuery(table) ==
    <<"S", "E", "L", "E", "C", "T", " ", "*", " ", "F", "R", "O", "M", " ", "t",
      "a", "b", "l", "e", "_", "c", "o", "l", "u", "m", "n", "s", "(", "'">>
    \o table \o <<"'", ")">>

\* -------------------------------------------------------------- JS values

\* A JavaScript value: k is its kind, s its string payload, n its numeric
\* payload in tenths (15 is 1.5), so that integral and fractional numbers differ.
Str(s) == [k |-> "string", s |-> s, n |-> 0]

Num(tenths) == [k |-> "number", s |-> "", n |-> tenths]

NaN == [k |-> "number", s |-> "NaN", n |-> 0]

Bool(b) == [k |-> "boolean", s |-> IF b THEN "true" ELSE "false", n |-> 0]

Null == [k |-> "null", s |-> "", n |-> 0]

Undefined == [k |-> "undefined", s |-> "", n |-> 0]

\* A plain object, {}.
Obj == [k |-> "object", s |-> "", n |-> 0]

\* A one-element array holding the string s.
Arr(s) == [k |-> "array", s |-> s, n |-> 0]

\* Milliseconds as a number.
Ms(ms) == Num(10 * ms)

\* The typeof operator.
TypeOf(v) == IF v.k \in {"null", "object", "array"} THEN "object" ELSE v.k

\* Number.isInteger.
IsInteger(v) == v.k = "number" /\ v.s # "NaN" /\ v.n % 10 = 0

\* String(value), as template literals, String() and Date.parse apply it.
JsString(v) ==
    CASE v.k = "string" -> v.s
      [] v.k = "array" -> v.s
      [] v.k = "boolean" -> v.s
      [] v.k = "null" -> "null"
      [] v.k = "undefined" -> "undefined"
      [] v.k = "object" -> "[object Object]"
      [] v.k = "number" /\ v.s = "NaN" -> "NaN"
      [] v.k = "number" /\ v.n % 10 = 0 -> ToString(v.n \div 10)
      [] OTHER -> ToString(v.n \div 10) \o "." \o ToString(v.n % 10)

\* Date.parse on the date strings of the model: epoch milliseconds, or NaN
\* for a string that is no date.
DateParse(s) ==
    CASE s = "1970-01-01T00:00:00.007Z" -> Ms(7)
      [] s = "1970-01-02" -> Ms(86400000)
      [] OTHER -> NaN

\* A record (a JavaScript object): its entries in insertion order, keys distinct.
Entry(key, val) == [key |-> key, val |-> val]

Keys(data) == {data[i].key : i \in 1..Len(data)}

\* data[key]: undefined when the key is absent.
Get(data, key) ==
    IF key \in Keys(data)
    THEN data[CHOOSE i \in 1..Len(data) : data[i].key = key].val
    ELSE Undefined

\* questdb-client.ts:107-109.
Timestamp(data) ==
    LET ts == Get(data, "timestamp")
    IN  IF ts # Undefined
        THEN IF TypeOf(ts) = "number" THEN ts ELSE DateParse(JsString(ts))
        ELSE Undefined

\* The record taken whole, `timestamp` key included.
IsColumnEntryAny(e) == TRUE

\* questdb-client.ts:112, const { timestamp: _, ...columnData } = data.
IsColumnEntry(e) == e.key # "timestamp"

ColumnData(data) == SelectSeq(data, IsColumnEntry)

\* ---------------------------------------------------------- Sender calls

\* One call on a Sender: op on sender sid with a name and a value.  ok says
\* the call returned normally, eff that it took effect in the sender.
SenderCall(op, sid, key, val, ok, eff) ==
    [op |-> op, sid |-> sid, key |-> key, val |-> val, ok |-> ok, eff |-> eff]

\* questdb-client.ts:119-121.
IsSkipped(e) == e.val = Null \/ e.val = Undefined

IsEmitted(e) == ~IsSkipped(e)

\* The column call chosen without the Number.isInteger test.
ColumnOpNoInteger(value) ==
    CASE TypeOf(value) = "string" -> "symbol"
      [] TypeOf(value) = "number" -> "floatColumn"
      [] TypeOf(value) = "boolean" -> "booleanColumn"
      [] OTHER -> "symbol"

\* questdb-client.ts:123-142: the column call made for one entry.
ColumnOp(value) ==
    CASE TypeOf(value) = "string" -> "symbol"
      [] TypeOf(value) = "number" ->
            IF IsInteger(value) THEN "intColumn" ELSE "floatColumn"
      [] TypeOf(value) = "boolean" -> "booleanColumn"
      [] OTHER -> "symbol"

ColumnValue(value) ==
    IF TypeOf(value) \in {"string", "number", "boolean"}
    THEN value
    ELSE Str(JsString(value))

\* questdb-client.ts:118-143: the column calls of a record, in entry order.
ColumnCalls(sid, data) ==
    LET emitted == SelectSeq(ColumnData(data), IsEmitted)
    IN  [i \in 1..Len(emitted) |->
            SenderCall(ColumnOp(emitted[i].val), sid, emitted[i].key,
                       ColumnValue(emitted[i].val), TRUE, TRUE)]

\* Every row closed with atNow(), whatever the record's timestamp.
CloseRowCallNow(sid, data, ok, eff) == SenderCall("atNow", sid, "", Undefined, ok, eff)

\* questdb-client.ts:146-150: the call that closes the row.
CloseRowCall(sid, data, ok, eff) ==
    IF Timestamp(data) # Undefined
    THEN SenderCall("at", sid, "ms", Timestamp(data), ok, eff)
    ELSE SenderCall("atNow", sid, "", Undefined, ok, eff)

\* questdb-client.ts:115-150: table(), the column calls and the closing call.
RowCalls(sid, table, data, ok, eff) ==
    <<SenderCall("table", sid, table, Undefined, TRUE, TRUE)>>
    \o ColumnCalls(sid, data)
    \o <<CloseRowCall(sid, data, ok, eff)>>

\* The name of a row whose call has ended in an error.
Stale == 0

\* The buffer of a Sender: whether a row is under construction in it, and the
\* closed rows it has not sent yet, each named by the slot of the call that
\* built it (Stale once that call has ended in an error).
EmptyBuffer == [open |-> FALSE, held |-> {}]

\* What becomes of the closed rows when a flush fails: they stay in the buffer,
\* they are discarded, or the database took them although the call failed.
Fates == {"kept", "dropped", "delivered"}

\* The buffer after flush(): sent rows leave it, and so do discarded ones.
AfterFlush(buf, ok, fate) == IF ok \/ fate # "kept" THEN [buf EXCEPT !.held = {}] ELSE buf

\* The rows a flush() brings to the database.
SentByFlush(buf, ok, fate) == IF ok \/ fate = "delivered" THEN buf.held ELSE {}

\* The buffer after the calls of a row built by call c, of which call number
\* `failed` threw: a row is under construction from table() until the closing
\* call closes it; a closing call that rejects after closing has flushed.
BufferAfterRow(buf, c, n, failed, fate) ==
    LET closed == [open |-> FALSE, held |-> buf.held \cup {c}]
    IN  CASE failed = 0 -> closed
          [] failed = 1 -> buf
          [] failed = n + 1 -> AfterFlush(closed, FALSE, fate)
          [] OTHER -> [buf EXCEPT !.open = TRUE]

\* A row of call c is named Stale once the call has ended in an error, and
\* forgotten once it has ended well.
Retag(rows, c, failed) ==
    IF c \in rows
    THEN (rows \ {c}) \cup (IF failed THEN {Stale} ELSE {})
    ELSE rows

\* ------------------------------------------------------------------ errors

\* A thrown value: inst says it is an instance of Error (msg is its message);
\* otherwise val is the thrown value as String() renders it.
Error(msg) == [thrown |-> TRUE, inst |-> TRUE, msg |-> msg, val |-> <<>>]

ThrownValue(val) == [thrown |-> TRUE, inst |-> FALSE, msg |-> <<>>, val |-> val]

NoError == [thrown |-> FALSE, inst |-> FALSE, msg |-> <<>>, val |-> <<>>]

\* error instanceof Error ? error.message : String(error), in every handler.
ErrorMessage(e) == IF e.inst THEN e.msg ELSE e.val

\* ------------------------------------------------------------ query results

\* A JSON value answered by the query endpoint, as response.json() parses it.
\* A result is null or an object; its dataset is absent, null, a string or an
\* array of rows; a row is an array of cells.
Absent == [k |-> "absent", rows |-> <<>>, n |-> 0]

JsonNull == [k |-> "null", rows |-> <<>>, n |-> 0]

JsonString(len) == [k |-> "string", rows |-> <<>>, n |-> len]

JsonArray(rows) == [k |-> "array", rows |-> rows, n |-> Len(rows)]

JsonNumber(n) == [k |-> "number", rows |-> <<>>, n |-> n]

ResultObject(dataset, count, columns) ==
    [k |-> "object", dataset |-> dataset, count |-> count, columns |-> columns]

ResultNull == [k |-> "null", dataset |-> Absent, count |-> Absent, columns |-> Absent]

\* What an adapter operation returns: nothing, a parsed result, a text body or
\* a list of names.
Returned(k, json, text, list) == [k |-> k, json |-> json, text |-> text, list |-> list]

NoReturn == Returned("none", ResultNull, <<>>, <<>>)

\* An HTTP response: json is the body as response.json() parses it (parses is
\* FALSE when the body is no JSON), text the body as response.text() reads it.
Response(ok, status, statusText, text, parses, json) ==
    [k |-> "response", ok |-> ok, status |-> status, statusText |-> statusText,
     text |-> text, parses |-> parses, json |-> json, error |-> NoError]

\* fetch itself rejecting.
Rejected(e) ==
    [k |-> "rejected", ok |-> FALSE, status |-> 0, statusText |-> <<>>,
     text |-> <<>>, parses |-> FALSE, json |-> ResultNull, error |-> e]

\* No request was answered.
NoAnswer == Rejected(NoError)

\* An outcome of an adapter operation: the requests it issued, what it threw,
\* what it returned.
Outcome(http, err, ret) == [http |-> http, err |-> err, ret |-> ret]

\* questdb-client.ts:71-83: the GET request of query().
Request(query, format) == [method |-> "GET", path |-> "/exec", query |-> query, fmt |-> format]

\* An error for a non-success status that tells neither status nor body.
QueryFailedMessageBare(net) == <<"Query failed">>

\* questdb-client.ts:87, the message of the error for a non-success status.
QueryFailedMessage(net) ==
    <<"Query failed: ">> \o NumText(net.status) \o <<" ">> \o net.statusText
    \o <<". ">> \o net.text

\* questdb-client.ts:64-96, QuestDBClient.query against the answer `net`.
QueryOutcome(query, format, net) ==
    IF ~IsSelect(query)
    THEN Outcome(<<>>, Error(<<"Only SELECT queries are allowed for safety reasons">>), NoReturn)
    ELSE LET http == <<Request(query, format)>>
         IN  IF net.k = "rejected"
             THEN Outcome(http, net.error, NoReturn)
             ELSE IF ~net.ok
             THEN Outcome(http, Error(QueryFailedMessage(net)), NoReturn)
             ELSE IF format = "json"
             THEN IF net.parses
                  THEN Outcome(http, NoError, Returned("json", net.json, <<>>, <<>>))
                  ELSE Outcome(http, Error(<<"Unexpected token in JSON">>), NoReturn)
             ELSE Outcome(http, NoError, Returned("text", ResultNull, net.text, <<>>))

\* The last cell of a row.
FirstCellLast(row) == IF Len(row) >= 1 THEN row[Len(row)] ELSE Undefined

\* row[0]: undefined for an empty row.
FirstCell(row) == IF Len(row) >= 1 THEN row[1] ELSE Undefined

\* questdb-client.ts:164, result && result.dataset && Array.isArray(result.dataset).
Truthy(json) ==
    CASE json.k = "array" -> TRUE
      [] json.k = "string" -> json.n > 0
      [] json.k = "number" -> json.n # 0
      [] OTHER -> FALSE

HasDatasetArray(result) ==
    result.k = "object" /\ Truthy(result.dataset) /\ result.dataset.k = "array"

\* questdb-client.ts:159-169, QuestDBClient.listTables.
ListTablesOutcome(net) ==
    LET q == QueryOutcome(ListTablesQuery, "json", net)
    IN  IF q.err.thrown
        THEN q
        ELSE IF HasDatasetArray(q.ret.json)
        THEN Outcome(q.http, NoError,
                     Returned("list", ResultNull, <<>>,
                              [i \in 1..Len(q.ret.json.dataset.rows) |->
                                  FirstCell(q.ret.json.dataset.rows[i])]))
        ELSE Outcome(q.http, NoError, Returned("list", ResultNull, <<>>, <<>>))

\* questdb-client.ts:176-184, QuestDBClient.describeTable.
DescribeTableOutcome(table, net) ==
    IF ~ValidTableName(table)
    THEN Outcome(<<>>, Error(<<"Invalid table name: ">> \o table), NoReturn)
    ELSE QueryOutcome(DescribeQuery(table), "json", net)

\* ------------------------------------------------------------------ Logger

\* The try block without its else branch: with the server not connected the
\* message goes nowhere.
LogAttemptNoElse(conn, sendOk) ==
    IF conn
    THEN IF sendOk
         THEN [via |-> "mcp", threw |-> FALSE, conn |-> conn, path |-> "try"]
         ELSE [via |-> "none", threw |-> TRUE, conn |-> conn, path |-> "try"]
    ELSE [via |-> "none", threw |-> FALSE, conn |-> conn, path |-> "try"]

\* logger.ts (describe-table.ts:69-85 and 90-106), the try block: the message
\* goes to the protocol channel when the server is connected (and that send may
\* throw), to the local error stream otherwise.  `path` names the block that
\* had the last word.
LogAttempt(conn, sendOk) ==
    IF conn
    THEN IF sendOk
         THEN [via |-> "mcp", threw |-> FALSE, conn |-> conn, path |-> "try"]
         ELSE [via |-> "none", threw |-> TRUE, conn |-> conn, path |-> "try"]
    ELSE [via |-> "console", threw |-> FALSE, conn |-> conn, path |-> "try"]

\* The logger without its catch block.
LogUncaught(attempt) == attempt

\* The catch block: a failed send falls back to the local error stream.
LogCaught(attempt) ==
    IF attempt.threw
    THEN [attempt EXCEPT !.via = "console", !.threw = FALSE, !.path = "catch"]
    ELSE attempt

\* console.error called directly.
Console(conn) == [via |-> "console", threw |-> FALSE, conn |-> conn, path |-> "direct"]

LogEntry(level, message, delivery) ==
    [level |-> level, message |-> message, via |-> delivery.via, threw |-> delivery.threw,
     conn |-> delivery.conn, path |-> delivery.path]

\* Logger.info.
LoggerInfo(message, conn, sendOk) == LogEntry("info", message, LogCaught(LogAttempt(conn, sendOk)))

\* Logger.error.
LoggerError(message, conn, sendOk) == LogEntry("error", message, LogCaught(LogAttempt(conn, sendOk)))

\* ------------------------------------------------------------ the envelope

NoStructured == [k |-> "none"]

Envelope(isError, text, structured) ==
    [returned |-> TRUE, isError |-> isError, text |-> text, structured |-> structured]

NoEnvelope == [returned |-> FALSE, isError |-> FALSE, text |-> <<>>, structured |-> NoStructured]

\* The error envelope every handler's catch block builds.
ErrorEnvelope(e) == Envelope(TRUE, <<"Error: ">> \o ErrorMessage(e), NoStructured)

\* What a handler ends with: the adapter's outcome, the error its catch block
\* caught, its log entries, the envelope it returned, and whether it threw.
Handled(o, caught, logs, out, esc) ==
    [http |-> o.http, err |-> o.err, ret |-> o.ret, caught |-> caught,
     logs |-> logs, out |-> out, esc |-> esc]

\* The catch block of a handler: log the failure, return the error envelope.
\* The handler throws only if the logger does.
CatchBlock(o, e, prefix, conn, sendOk) ==
    LET entry == LoggerError(prefix \o ErrorMessage(e), conn, sendOk)
    IN  IF entry.threw
        THEN Handled(o, e, <<entry>>, NoEnvelope, TRUE)
        ELSE Handled(o, e, <<entry>>, ErrorEnvelope(e), FALSE)

\* JSON.stringify of a result, as a text of tokens.
JsonText(json) ==
    CASE json.k = "null" -> <<"null">>
      [] OTHER -> <<"{", "dataset", ":", json.dataset.k, ToString(json.dataset.n), ",",
                    "count", ":", json.count.k, ToString(json.count.n), "}">>

\* a || b on JSON values.
OrElse(a, b) == IF Truthy(a) THEN a ELSE b

\* dataset?.length: the length of an array or a string, undefined otherwise.
LengthOf(json) == IF json.k \in {"array", "string"} THEN JsonNumber(json.n) ELSE Absent

\* query.ts (part_001:110-155), the query tool's handler.
QueryHandler(query, formatArg, net, conn, sendOk) ==
    LET format == IF formatArg = "" THEN "json" ELSE formatArg
        o == QueryOutcome(query, format, net)
        r == o.ret.json
    IN  IF o.err.thrown
        THEN CatchBlock(o, o.err, <<"Query failed: ">>, conn, sendOk)
        ELSE IF format = "json"
        THEN IF r.k = "null"
             THEN CatchBlock(o, Error(<<"Cannot read properties of null">>),
                             <<"Query failed: ">>, conn, sendOk)
             ELSE Handled(o, NoError, <<>>,
                          Envelope(FALSE, JsonText(r),
                                   [k |-> "query", query |-> query,
                                    dataset |-> OrElse(r.dataset, JsonArray(<<>>)),
                                    count |-> OrElse(r.count,
                                                     OrElse(LengthOf(r.dataset), JsonNumber(0))),
                                    columns |-> OrElse(r.columns, JsonArray(<<>>))]),
                          FALSE)
        ELSE Handled(o, NoError, <<>>, Envelope(FALSE, o.ret.text, NoStructured), FALSE)

\* list-tables.ts (part_001:50-79), the list_tables tool's handler.
ListTablesHandler(net, conn, sendOk) ==
    LET o == ListTablesOutcome(net)
    IN  IF o.err.thrown
        THEN CatchBlock(o, o.err, <<"List tables failed: ">>, conn, sendOk)
        ELSE Handled(o, NoError, <<>>,
                     Envelope(FALSE,
                              <<"{", "tables", ":">>
                              \o [i \in 1..Len(o.ret.list) |-> JsString(o.ret.list[i])]
                              \o <<",", "count", ":", ToString(Len(o.ret.list)), "}">>,
                              [k |-> "list", tables |-> o.ret.list, count |-> Len(o.ret.list)]),
                     FALSE)

\* describe-table.ts:23-52, the describe_table tool's handler.
DescribeTableHandler(table, net, conn, sendOk) ==
    LET o == DescribeTableOutcome(table, net)
        r == o.ret.json
    IN  IF o.err.thrown
        THEN CatchBlock(o, o.err, <<"Describe table failed: ">>, conn, sendOk)
        ELSE IF r.k = "null"
        THEN CatchBlock(o, Error(<<"Cannot read properties of null">>),
                        <<"Describe table failed: ">>, conn, sendOk)
        ELSE Handled(o, NoError, <<>>,
                     Envelope(FALSE, JsonText(r),
                              [k |-> "describe", table |-> table,
                               columns |-> IF Truthy(r.dataset) THEN r.dataset ELSE r]),
                     FALSE)

\* ------------------------------------------------------------------ inputs

\* Query strings: optional white space, a first word, a tail, optional white space.
LeadPads == {<<>>, <<" ">>, <<"\n", "\t">>}

TrailPads == {<<>>, <<" ">>}

FirstWords ==
    {SELECT,
     <<"s", "e", "l", "e", "c", "t">>,
     <<"S", "e", "l", "E", "c", "t">>,
     <<"S", "E", "L", "E", "C">>,
     <<"D", "R", "O", "P">>,
     <<"x", "S", "E", "L", "E", "C", "T">>,
     <<"S", " ", "E", "L", "E", "C", "T">>,
     <<>>}

Tails == {<<>>, <<" ", "1">>}

QueryInputs ==
    {l \o w \o t \o r : l \in LeadPads, w \in FirstWords, t \in Tails, r \in TrailPads}

\* The format argument of the query tool: "" when it is omitted.
FormatArgs == {"", "json", "csv"}

\* Table names given to describe_table: every text up to MaxNameLen over NameChars.
NameChars == {"t", "Z", "_", "7", "'", "\n"}

RECURSIVE Texts(_, _)
Texts(chars, len) ==
    IF len = 0
    THEN {<<>>}
    ELSE LET shorter == Texts(chars, len - 1)
         IN  shorter \cup {<<ch>> \o t : ch \in chars, t \in {x \in shorter : Len(x) = len - 1}}

DescribeNames == Texts(NameChars, MaxNameLen)

\* Rows answered by the endpoint: up to two cells each.
Cells == {Str("t1"), Str("t2")}

Rows == {<<>>} \cup {<<a>> : a \in Cells} \cup {<<a, b>> : a \in Cells, b \in Cells}

RECURSIVE RowLists(_)
RowLists(len) ==
    IF len = 0
    THEN {<<>>}
    ELSE LET shorter == RowLists(len - 1)
         IN  shorter \cup {<<r>> \o t : r \in Rows, t \in {x \in shorter : Len(x) = len - 1}}

Datasets ==
    {Absent, JsonNull, JsonString(0), JsonString(3)} \cup {JsonArray(rs) : rs \in RowLists(MaxRows)}

Counts == {Absent, JsonNumber(0), JsonNumber(5)}

ColumnLists == {Absent, JsonArray(<<Str("table_name")>>)}

ErrorBodies == {<<>>, <<"{\"error\":\"table does not exist\"}">>}

\* The answers of the query endpoint.
FailedResponses ==
    {Response(FALSE, 400, <<"Bad Request">>, b, TRUE, ResultNull) : b \in ErrorBodies}
    \cup {Response(FALSE, 500, <<"Internal Server Error">>, <<"oops">>, FALSE, ResultNull)}

Rejections == {Rejected(Error(<<"fetch failed">>)), Rejected(ThrownValue(<<"aborted">>))}

OkResponses(datasets, counts) ==
    {Response(TRUE, 200, <<"OK">>, <<"a,b">>, TRUE, ResultObject(d, n, cs)) :
        d \in datasets, n \in counts, cs \in ColumnLists}
    \cup {Response(TRUE, 200, <<"OK">>, <<"null">>, TRUE, ResultNull),
          Response(TRUE, 200, <<"OK">>, <<"<html>">>, FALSE, ResultNull)}

Answers(datasets, counts) == OkResponses(datasets, counts) \cup FailedResponses \cup Rejections

\* Values of the data fields of an insert record.
FieldValues == {Str("x"), Ms(1), Num(15), Bool(TRUE), Null, Undefined, Obj}

\* Values of the `timestamp` key of an insert record.
TimestampValues ==
    {Ms(7), Num(15), Str("1970-01-02"), Str("1970-01-01T00:00:00.007Z"), Str("soon"),
     Null, Undefined, Bool(TRUE), Obj, Arr("1970-01-02"), Arr("soon")}

FieldKeys == <<"a", "b", "c">>

RECURSIVE FieldRecords(_)
FieldRecords(len) ==
    IF len = 0
    THEN {<<>>}
    ELSE LET shorter == FieldRecords(len - 1)
         IN  shorter \cup {t \o <<Entry(FieldKeys[len], v)>> :
                              v \in FieldValues, t \in {x \in shorter : Len(x) = len - 1}}

\* Records with a `timestamp` key: alone, before and after a data field.
TimestampRecords ==
    UNION {{<<Entry("timestamp", ts)>>,
            <<Entry("timestamp", ts), Entry("a", Str("x"))>>,
            <<Entry("a", Ms(1)), Entry("timestamp", ts)>>} : ts \in TimestampValues}

\* Records of several fields: the one of the README with its kinds in the
\* order string, integer, float, boolean; one with a column before a string;
\* one with skipped fields around the `timestamp` key.
ExampleRecords ==
    {<<Entry("a", Str("x")), Entry("b", Ms(1)), Entry("b2", Num(15)), Entry("c", Bool(TRUE)),
       Entry("timestamp", Ms(7))>>,
     <<Entry("b", Ms(1)), Entry("b2", Num(15)), Entry("a", Str("x")), Entry("o", Obj)>>,
     <<Entry("a", Null), Entry("timestamp", Str("1970-01-02")), Entry("b", Undefined),
       Entry("c", Str("x"))>>}

InsertRecords == FieldRecords(MaxFields) \cup TimestampRecords \cup ExampleRecords

InsertTables == {"trades"}

\* ----------------------------------------------------------- configuration

\* An environment variable: unset, or set to a text.
Unset == [set |-> FALSE, s |-> <<>>]

SetTo(s) == [set |-> TRUE, s |-> s]

\* value || fallback on an environment variable: unset and "" are falsy.
EnvOr(v, fallback) == IF v.set /\ v.s # <<>> THEN v.s ELSE fallback

DigitValue(ch) == CHOOSE d \in 0..9 : ToString(d) = ch

\* The number its leading digits spell, after the digits read so far gave acc.
RECURSIVE DigitsValue(_, _)
DigitsValue(s, acc) ==
    IF s = <<>> \/ Head(s) \notin Digits
    THEN acc
    ELSE DigitsValue(Tail(s), 10 * acc + DigitValue(Head(s)))

\* parseInt(s, 10): leading white space and a sign are skipped, the digits
\* that follow are read up to the first other character, none gives NaN.
ParseInt(s) ==
    LET t == TrimStart(s)
        signed == t # <<>> /\ Head(t) \in {"+", "-"}
        body == IF signed THEN Tail(t) ELSE t
        magnitude == DigitsValue(body, 0)
    IN  IF body = <<>> \/ Head(body) \notin Digits
        THEN NaN
        ELSE Ms(IF signed /\ Head(t) = "-" THEN 0 - magnitude ELSE magnitude)

\* config.ts:12-17: a flush setting is parsed when its variable is truthy.
FlushSetting(v) == IF v.set /\ v.s # <<>> THEN ParseInt(v.s) ELSE Undefined

DefaultHost == <<"localhost">>

DefaultPort == <<"9", "0", "0", "0">>

\* config.ts:6-19, loadConfig.
LoadConfig(e) ==
    [loaded |-> TRUE,
     host |-> EnvOr(e.QUESTDB_HOST, DefaultHost),
     port |-> ParseInt(EnvOr(e.QUESTDB_PORT, DefaultPort)),
     username |-> e.QUESTDB_USERNAME,
     password |-> e.QUESTDB_PASSWORD,
     autoFlushRows |-> FlushSetting(e.QUESTDB_AUTO_FLUSH_ROWS),
     autoFlushInterval |-> FlushSetting(e.QUESTDB_AUTO_FLUSH_INTERVAL)]

\* loadConfig() has not been called.
NoConfig ==
    [loaded |-> FALSE, host |-> <<>>, port |-> Undefined, username |-> Unset,
     password |-> Unset, autoFlushRows |-> Undefined, autoFlushInterval |-> Undefined]

\* The environment with no QUESTDB_* variable set.
UnsetEnv ==
    [QUESTDB_HOST |-> Unset, QUESTDB_PORT |-> Unset, QUESTDB_USERNAME |-> Unset,
     QUESTDB_PASSWORD |-> Unset, QUESTDB_AUTO_FLUSH_ROWS |-> Unset,
     QUESTDB_AUTO_FLUSH_INTERVAL |-> Unset]

\* Values of QUESTDB_HOST.
HostTexts == {Unset, SetTo(<<>>), SetTo(<<"db.internal">>)}

\* Values of QUESTDB_PORT and of the flush settings.
NumberTexts ==
    {Unset, SetTo(<<>>), SetTo(<<"8", "8", "1", "2">>), SetTo(<<" ", "4", "2">>),
     SetTo(<<"8", "0", "x">>), SetTo(<<"1", "2", ".", "5">>), SetTo(<<"-", "1">>),
     SetTo(<<"a", "b", "c">>), SetTo(<<"0">>)}

FlushTexts == {Unset, SetTo(<<>>), SetTo(<<"1", "0", "0">>), SetTo(<<"1", "s">>), SetTo(<<"o", "f", "f">>)}

Secrets == {Unset, SetTo(<<"admin">>)}

Envs ==
    [QUESTDB_HOST : HostTexts, QUESTDB_PORT : NumberTexts, QUESTDB_USERNAME : Secrets,
     QUESTDB_PASSWORD : Secrets, QUESTDB_AUTO_FLUSH_ROWS : FlushTexts,
     QUESTDB_AUTO_FLUSH_INTERVAL : FlushTexts]

\* ------------------------------------------------------------------- state

VARIABLES
    sender,     \* QuestDBClient.sender: 0 for null, else the Sender object held
    senders,    \* the Sender objects created so far: "open" or "closed"
    connected,  \* McpServer.isConnected()
    transport,  \* QuestDBMCPServer.transport is set
    streak,     \* close() calls completed in a row just now, up to 2
    clock,      \* the database's clock
    lastNow,    \* the event time the database gave the last row sent without one
    buffers,    \* the buffer of each Sender object created so far
    db,         \* the rows that reached the database, by the call they came from
    created,    \* the Sender objects created since close() last returned
    env,        \* process.env: the QUESTDB_* variables
    config,     \* what loadConfig() returned
    calls       \* the tool call or close() call of each slot

vars ==
    <<sender, senders, connected, transport, streak, clock, lastNow, buffers, db, created,
      env, config, calls>>

\* The process environment and the configuration read from it.
boot == <<env, config>>

\* The variables a call of a stateless tool leaves alone.
adapter == <<sender, senders, connected, transport, clock, lastNow, buffers, db, created, boot>>

\* A call: op and arguments, position, the streak it began after, the Sender
\* it holds (insert's local `sender`), the Sender calls and requests it made,
\* and how it ended.
Call(op, pc, pre) ==
    [op |-> op, pc |-> pc, pre |-> pre,
     table |-> "", name |-> <<>>, data |-> <<>>, query |-> <<>>, format |-> "",
     snd |-> 0, ops |-> <<>>, http |-> <<>>, logs |-> <<>>, net |-> NoAnswer,
     now |-> 0, prevNow |-> 0, conn0 |-> FALSE, linked |-> FALSE, conn1 |-> FALSE,
     err |-> NoError, caught |-> NoError, ret |-> NoReturn,
     out |-> NoEnvelope, esc |-> FALSE]

Idle == Call("none", "idle", 0)

\* The slot is free for a new call.
Free(c) == calls[c].pc = "idle"

\* A finished handler call.
Finished(cl, h) ==
    [cl EXCEPT !.pc = "done", !.http = h.http, !.err = h.err, !.ret = h.ret,
               !.caught = h.caught, !.logs = cl.logs \o h.logs, !.out = h.out,
               !.esc = h.esc]

\* The slots of the calls in flight: two calls may be in flight at once.
Slots == {1, 2}

\* The slot of the calls of a caller that waits for each answer before it
\* calls again.
Serial == {1}

Init ==
    /\ sender = 0
    /\ senders = <<>>
    /\ connected = FALSE
    /\ transport = FALSE
    /\ streak = 0
    /\ clock = 0
    /\ lastNow = 0
    /\ buffers = <<>>
    /\ db = {}
    /\ created = 0
    /\ env = UnsetEnv
    /\ config = LoadConfig(env)
    /\ calls = [c \in Slots |-> Idle]

\* ------------------------------------------------------- the stateless tools

\* A query tool that lets go of the Sender the adapter holds.
QueryToolDropsSender(c, queries, answers) ==
    /\ Free(c)
    /\ \E query \in queries, formatArg \in FormatArgs, net \in answers, sendOk \in BOOLEAN :
          calls' = [calls EXCEPT ![c] =
                       Finished([Call("query", "done", streak) EXCEPT
                                    !.query = query, !.format = formatArg, !.net = net],
                                QueryHandler(query, formatArg, net, connected, sendOk))]
    /\ streak' = 0
    /\ sender' = 0
    /\ UNCHANGED <<senders, connected, transport, clock, lastNow, buffers, db, created, boot>>

\* The query tool, called with a query and a format, the endpoint answering net.
QueryTool(c, queries, answers) ==
    /\ Free(c)
    /\ \E query \in queries, formatArg \in FormatArgs, net \in answers, sendOk \in BOOLEAN :
          calls' = [calls EXCEPT ![c] =
                       Finished([Call("query", "done", streak) EXCEPT
                                    !.query = query, !.format = formatArg, !.net = net],
                                QueryHandler(query, formatArg, net, connected, sendOk))]
    /\ streak' = 0
    /\ UNCHANGED adapter

\* The list_tables tool.
ListTablesTool(c, answers) ==
    /\ Free(c)
    /\ \E net \in answers, sendOk \in BOOLEAN :
          calls' = [calls EXCEPT ![c] =
                       Finished([Call("list_tables", "done", streak) EXCEPT !.net = net],
                                ListTablesHandler(net, connected, sendOk))]
    /\ streak' = 0
    /\ UNCHANGED adapter

\* The describe_table tool.
DescribeTableTool(c, names, answers) ==
    /\ Free(c)
    /\ \E table \in names, net \in answers, sendOk \in BOOLEAN :
          calls' = [calls EXCEPT ![c] =
                       Finished([Call("describe_table", "done", streak) EXCEPT
                                    !.name = table, !.net = net],
                                DescribeTableHandler(table, net, connected, sendOk))]
    /\ streak' = 0
    /\ UNCHANGED adapter

\* ------------------------------------------------------------------ insert

Min(a, b) == IF a < b THEN a ELSE b

StreakAfterClose == Min(streak + 1, 2)

SenderFailure(op) == Error(<<"Sender.", op, " failed">>)

\* What a failing flush() throws.
FlushErrors == {SenderFailure("flush"), ThrownValue(<<"ECONNRESET">>)}

\* The Sender takes a designated timestamp only if it is an integer.
AcceptsRowClose(call) == call.op = "atNow" \/ IsInteger(call.val)

\* insert.ts (part_002:27-29) calling questdb-client.ts:103-104 and 22-25: the
\* insert tool is called, insert() asks getSender(), which returns the held
\* Sender or starts creating one.
InsertStart(c, tables, records) ==
    /\ Free(c)
    /\ sender # 0 \/ Len(senders) < MaxSenders
    /\ \E table \in tables, data \in records :
          calls' = [calls EXCEPT ![c] =
                       [Call("insert", IF sender = 0 THEN "creating" ELSE "build", streak)
                           EXCEPT !.table = table, !.data = data, !.snd = sender]]
    /\ UNCHANGED <<adapter, streak>>

\* questdb-client.ts:25-34: Sender.fromConfig settles; the new Sender becomes
\* the held one and its creation is logged without waiting for the log.
SenderCreated(c) ==
    /\ calls[c].pc = "creating"
    /\ Len(senders) < MaxSenders
    /\ LET id == Len(senders) + 1
       IN  \/ \E sendOk \in BOOLEAN :
                /\ senders' = Append(senders, "open")
                /\ buffers' = Append(buffers, EmptyBuffer)
                /\ created' = created + 1
                /\ sender' = id
                /\ calls' = [calls EXCEPT ![c] =
                      [@ EXCEPT !.pc = "build", !.snd = id,
                                !.ops = @ \o <<SenderCall("fromConfig", id, "", Undefined, TRUE, TRUE)>>,
                                !.logs = @ \o <<LoggerInfo(<<"QuestDB sender initialized">>,
                                                           connected, sendOk)>>]]
           \/ /\ calls' = [calls EXCEPT ![c] =
                      [@ EXCEPT !.pc = "caught", !.err = SenderFailure("fromConfig"),
                                !.ops = @ \o <<SenderCall("fromConfig", 0, "", Undefined, FALSE, FALSE)>>]]
              /\ UNCHANGED <<sender, senders, buffers, created>>
    /\ UNCHANGED <<connected, transport, streak, clock, lastNow, db, boot>>

\* The calls of a row of which call number `failed` throws (0: none does;
\* one past the last: the closing call closes the row and then rejects).
RowAttempt(plan, failed) ==
    LET n == Len(plan)
    IN  IF failed = 0
        THEN plan
        ELSE IF failed = n + 1
        THEN [plan EXCEPT ![n] = [@ EXCEPT !.ok = FALSE]]
        ELSE [i \in 1..failed |->
                 IF i < failed THEN plan[i] ELSE [plan[i] EXCEPT !.ok = FALSE, !.eff = FALSE]]

\* questdb-client.ts:106-150: the timestamp, table(), one column call per
\* field, and at() or atNow(), up to the first call that throws.
\* A table() that goes on with the row it finds under construction.
TableAdopts(buf) == FALSE

\* questdb-client.ts:115: table() throws when the Sender has a row under
\* construction already (left by a call that threw before closing it).
TableRejects(buf) == buf.open

\* An insert() that returns as soon as its row is closed.
RowClosedReturns == "returned"

\* questdb-client.ts:152: with the row closed, insert() goes on to flush().
RowClosed == "flush"

InsertBuild(c) ==
    /\ calls[c].pc = "build"
    /\ LET cl == calls[c]
           plan == RowCalls(cl.snd, cl.table, cl.data, TRUE, TRUE)
           n == Len(plan)
           buf == buffers[cl.snd]
       IN  \E failed \in 0..(n + 1), fate \in Fates :
              /\ failed \in {0, n + 1} => AcceptsRowClose(plan[n])
              /\ TableRejects(buf) => failed = 1
              /\ failed # n + 1 => fate = "kept"
              /\ calls' = [calls EXCEPT ![c] =
                    [@ EXCEPT !.ops = @ \o RowAttempt(plan, failed),
                              !.pc = IF failed = 0 THEN RowClosed ELSE "caught",
                              !.err = IF failed = 0
                                      THEN NoError
                                      ELSE SenderFailure(plan[Min(failed, n)].op)]]
              /\ buffers' = [buffers EXCEPT ![cl.snd] = BufferAfterRow(buf, c, n, failed, fate)]
              /\ db' = db \cup (IF failed = n + 1 /\ fate = "delivered"
                                THEN buf.held \cup {c}
                                ELSE {})
    /\ UNCHANGED <<sender, senders, connected, transport, clock, lastNow, created, boot, streak>>

\* The row the call closed carries no event time of its own.
ClosedWithoutTime(cl) ==
    \E i \in 1..Len(cl.ops) : cl.ops[i].op = "atNow" /\ cl.ops[i].eff

\* questdb-client.ts:152: flush() on the Sender insert holds.  The database
\* gives a row sent without an event time the reading of its clock.
InsertFlush(c) ==
    /\ calls[c].pc = "flush"
    /\ \/ /\ calls' = [calls EXCEPT ![c] =
                [@ EXCEPT !.pc = "returned",
                          !.now = IF ClosedWithoutTime(calls[c]) THEN clock ELSE 0,
                          !.prevNow = IF ClosedWithoutTime(calls[c]) THEN lastNow ELSE 0,
                          !.ops = @ \o <<SenderCall("flush", calls[c].snd, "", Undefined, TRUE, TRUE)>>]]
          /\ lastNow' = IF ClosedWithoutTime(calls[c]) THEN clock ELSE lastNow
          /\ buffers' = [buffers EXCEPT ![calls[c].snd] = AfterFlush(@, TRUE, "kept")]
          /\ db' = db \cup SentByFlush(buffers[calls[c].snd], TRUE, "kept")
       \/ /\ \E e \in FlushErrors, fate \in Fates :
                /\ calls' = [calls EXCEPT ![c] =
                      [@ EXCEPT !.pc = "caught", !.err = e,
                                !.ops = @ \o <<SenderCall("flush", calls[c].snd, "", Undefined, FALSE, FALSE)>>]]
                /\ buffers' = [buffers EXCEPT ![calls[c].snd] = AfterFlush(@, FALSE, fate)]
                /\ db' = db \cup SentByFlush(buffers[calls[c].snd], FALSE, fate)
          /\ UNCHANGED lastNow
    /\ UNCHANGED <<sender, senders, connected, transport, streak, clock, created, boot>>

\* insert.ts (part_002:30-44): insert() returned; log it and answer.
InsertReturn(c) ==
    /\ calls[c].pc = "returned"
    /\ \E sendOk \in BOOLEAN :
          LET cl == calls[c]
              message == <<"Successfully inserted data into table '", cl.table, "'">>
              entry == LoggerInfo(<<"Inserted data into table '", cl.table, "'">>, connected, sendOk)
          IN  calls' = [calls EXCEPT ![c] =
                 [@ EXCEPT !.pc = "done", !.logs = @ \o <<entry>>, !.esc = entry.threw,
                           !.out = IF entry.threw
                                   THEN NoEnvelope
                                   ELSE Envelope(FALSE, message,
                                                 [k |-> "insert", success |-> TRUE,
                                                  table |-> cl.table, message |-> message])]]
    /\ streak' = 0
    /\ UNCHANGED adapter

\* insert.ts (part_002:45-57): insert() threw; the catch block answers.
InsertCatch(c) ==
    /\ calls[c].pc = "caught"
    /\ \E sendOk \in BOOLEAN :
          LET cl == calls[c]
              h == CatchBlock(Outcome(cl.http, cl.err, cl.ret), cl.err,
                              <<"Insert failed: ">>, connected, sendOk)
          IN  calls' = [calls EXCEPT ![c] = Finished(cl, h)]
    /\ streak' = 0
    /\ UNCHANGED adapter

\* ------------------------------------------------------------------- close

\* close() with its two Sender calls the other way round.
CloseStepsSwapped == <<"close", "flush">>

\* questdb-client.ts:192-193: the Sender calls of close(), in order.
CloseSteps == <<"flush", "close">>

\* A shutdown() that returns once close() has returned.
AfterCloseDone(op) == "done"

\* Where a call stands when its close() has returned: a close() call is
\* done, shutdown() goes on to the transport (questdb-client.ts:336-337).
AfterClose(op) == IF op = "shutdown" THEN "transport" ELSE "done"

\* questdb-client.ts:189-192: close() returns at once when no Sender is held,
\* else it flushes the held Sender.  `begun` is the call as it enters close().
CloseBegin(c, begun) ==
    /\ IF sender = 0
       THEN /\ calls' = [calls EXCEPT ![c] = [begun EXCEPT !.pc = AfterClose(begun.op)]]
            /\ streak' = StreakAfterClose
            /\ created' = 0
            /\ UNCHANGED <<buffers, db>>
       ELSE /\ \/ /\ calls' = [calls EXCEPT ![c] =
                        [begun EXCEPT
                            !.pc = "closeSender",
                            !.snd = sender,
                            !.ops = <<SenderCall(CloseSteps[1], sender, "", Undefined, TRUE, TRUE)>>]]
                  /\ buffers' = [buffers EXCEPT ![sender] = AfterFlush(@, TRUE, "kept")]
                  /\ db' = db \cup SentByFlush(buffers[sender], TRUE, "kept")
               \/ \E e \in FlushErrors, fate \in Fates :
                     /\ calls' = [calls EXCEPT ![c] =
                           [begun EXCEPT
                               !.pc = "closeCatch",
                               !.snd = sender,
                               !.caught = e,
                               !.ops = <<SenderCall(CloseSteps[1], sender, "", Undefined, FALSE, FALSE)>>]]
                     /\ buffers' = [buffers EXCEPT ![sender] = AfterFlush(@, FALSE, fate)]
                     /\ db' = db \cup SentByFlush(buffers[sender], FALSE, fate)
            /\ UNCHANGED <<streak, created>>
    /\ UNCHANGED <<sender, senders, connected, transport, clock, lastNow, boot>>

\* close() called on the adapter.
CloseStart(c) ==
    /\ Free(c)
    /\ CloseBegin(c, Call("close", "idle", streak))

\* questdb-client.ts:333-336 (server.ts:89-95): shutdown() logs without
\* waiting for the log and calls close().
ShutdownStart(c) ==
    /\ Free(c)
    /\ \E sendOk \in BOOLEAN :
          CloseBegin(c, [Call("shutdown", "idle", streak) EXCEPT
                            !.conn0 = connected,
                            !.logs = <<LoggerInfo(<<"Shutting down QuestDB MCP server">>,
                                                  connected, sendOk)>>])

\* questdb-client.ts:193: this.sender.close(), on whatever is held by now.
CloseSender(c) ==
    /\ calls[c].pc = "closeSender"
    /\ IF sender = 0
       THEN /\ calls' = [calls EXCEPT ![c] =
                   [@ EXCEPT !.pc = "closeCatch",
                             !.caught = Error(<<"Cannot read properties of null">>)]]
            /\ UNCHANGED senders
       ELSE \/ /\ calls' = [calls EXCEPT ![c] =
                     [@ EXCEPT !.pc = "closeLog",
                               !.ops = @ \o <<SenderCall(CloseSteps[2], sender, "", Undefined, TRUE, TRUE)>>]]
               /\ senders' = [senders EXCEPT ![sender] = "closed"]
            \/ \E eff \in BOOLEAN :
               /\ calls' = [calls EXCEPT ![c] =
                     [@ EXCEPT !.pc = "closeCatch", !.caught = SenderFailure("close"),
                               !.ops = @ \o <<SenderCall(CloseSteps[2], sender, "", Undefined, FALSE, eff)>>]]
               /\ senders' = IF eff THEN [senders EXCEPT ![sender] = "closed"] ELSE senders
    /\ UNCHANGED <<sender, connected, transport, streak, clock, lastNow, buffers, db, created, boot>>

\* The held Sender left in place by close().
SenderKept == sender

\* questdb-client.ts:201, this.sender = null.
SenderAfterClose == 0

\* Sender i is still referred to by a call other than c: an insert holds it
\* in its local `sender`.
InUse(i, c) ==
    \E d \in Slots \ {c} : calls[d].op = "insert" /\ calls[d].pc # "done" /\ calls[d].snd = i

\* questdb-client.ts:194-201: log the close without waiting (or report the
\* caught failure on the local error stream), then drop the held Sender.  With
\* the last reference to a Sender its buffer is gone.
CloseFinish(c) ==
    /\ calls[c].pc \in {"closeLog", "closeCatch"}
    /\ \E sendOk \in BOOLEAN :
          calls' = [calls EXCEPT ![c] =
             [@ EXCEPT !.pc = AfterClose(calls[c].op),
                       !.logs = IF calls[c].pc = "closeLog"
                                THEN @ \o <<LoggerInfo(<<"QuestDB connection closed">>,
                                                       connected, sendOk)>>
                                ELSE @ \o <<LogEntry("error", <<"Error closing QuestDB connection:">>,
                                                     Console(connected))>>]]
    /\ sender' = SenderAfterClose
    /\ streak' = StreakAfterClose
    /\ created' = 0
    /\ buffers' = [i \in 1..Len(buffers) |-> IF InUse(i, c) THEN buffers[i] ELSE EmptyBuffer]
    /\ UNCHANGED <<senders, connected, transport, clock, lastNow, db, boot>>

\* ------------------------------------------------------------- the server

\* The answer of a finished call has gone back to its caller.
Answered(c) ==
    /\ calls[c].pc = "done"
    /\ calls' = [calls EXCEPT ![c] = Idle]
    /\ LET failed == calls[c].out.isError \/ calls[c].esc
       IN  /\ buffers' = [i \in 1..Len(buffers) |->
                             [buffers[i] EXCEPT !.held = Retag(@, c, failed)]]
           /\ db' = Retag(db, c, failed)
    /\ UNCHANGED <<sender, senders, connected, transport, clock, lastNow, created, boot, streak>>

\* questdb-client.ts:337 (server.ts:96): the test that guards mcpServer.close().
ClosesTransport == transport /\ connected

\* questdb-client.ts:337-343 (server.ts:96-101): shutdown() closes the protocol
\* server when it made the transport itself and the server is connected; a
\* failure is reported on the local error stream.
ShutdownTransport(c) ==
    /\ calls[c].pc = "transport"
    /\ IF ClosesTransport
       THEN \E ok \in BOOLEAN, eff \in BOOLEAN :
               /\ ok => eff
               /\ connected' = ~eff
               /\ calls' = [calls EXCEPT ![c] =
                     [@ EXCEPT !.pc = "done", !.linked = TRUE, !.conn1 = ~eff,
                               !.ops = @ \o <<SenderCall("serverClose", 0, "", Undefined, ok, eff)>>,
                               !.logs = IF ok
                                        THEN @
                                        ELSE @ \o <<LogEntry("error", <<"Error during shutdown:">>,
                                                             Console(connected))>>]]
       ELSE /\ calls' = [calls EXCEPT ![c] = [@ EXCEPT !.pc = "done", !.conn1 = connected]]
            /\ UNCHANGED connected
    /\ UNCHANGED <<sender, senders, transport, streak, clock, lastNow, buffers, db, created, boot>>

\* README (part_003:133-169): the caller connects a transport of its own
\* through the exposed protocol server, server.server.connect(transport).
ConnectCustom ==
    /\ ~connected
    /\ connected' = TRUE
    /\ UNCHANGED <<sender, senders, transport, streak, clock, lastNow, buffers, db, created, boot, calls>>

\* server.ts:107-130 (questdb-client.ts:375-398), run(): the transport is
\* made and the protocol server connects to it, or fails to.
Run ==
    /\ ~transport
    /\ ~connected
    /\ transport' = TRUE
    /\ \E ok \in BOOLEAN : connected' = ok
    /\ UNCHANGED <<sender, senders, streak, clock, lastNow, buffers, db, created, boot, calls>>

\* The transport closes under the server (server.ts:116-118).
Disconnect ==
    /\ connected
    /\ connected' = FALSE
    /\ UNCHANGED <<sender, senders, transport, streak, clock, lastNow, buffers, db, created, boot, calls>>

\* The database's clock advances.
Tick ==
    /\ clock < MaxClock
    /\ clock' = clock + 1
    /\ UNCHANGED <<sender, senders, connected, transport, streak, lastNow, buffers, db, created, boot,
                   calls>>

\* ------------------------------------------------------------ specifications

\* Inputs of the stateless tools in the specification of the whole server.
SysQueries == {SELECT \o <<" ", "1">>, <<"D", "R", "O", "P">>}

SysNames == {<<"t">>, <<"'">>}

SysAnswers == Answers({Absent, JsonArray(<<<<Str("t1")>>>>)}, {Absent})

Next ==
    \/ \E c \in Serial :
          \/ QueryTool(c, SysQueries, SysAnswers)
          \/ ListTablesTool(c, SysAnswers)
          \/ DescribeTableTool(c, SysNames, SysAnswers)
          \/ InsertStart(c, InsertTables, InsertRecords)
          \/ SenderCreated(c)
          \/ InsertBuild(c)
          \/ InsertFlush(c)
          \/ InsertReturn(c)
          \/ InsertCatch(c)
          \/ CloseStart(c)
          \/ CloseSender(c)
          \/ CloseFinish(c)
          \/ ShutdownStart(c)
          \/ ShutdownTransport(c)
          \/ Answered(c)
    \/ Run
    \/ ConnectCustom
    \/ Disconnect
    \/ Tick

Spec == Init /\ [][Next]_vars

\* The stateless tools alone, over all their inputs.
QueryAnswers == Answers({Absent, JsonArray(<<>>), JsonArray(<<<<Str("t1")>>>>)}, Counts)

ListAnswers == Answers(Datasets, {Absent})

NextQuery ==
    \/ \E c \in Serial :
          \/ QueryTool(c, QueryInputs, QueryAnswers)
          \/ ListTablesTool(c, ListAnswers)
          \/ DescribeTableTool(c, DescribeNames, SysAnswers)
          \/ Answered(c)
    \/ Run
    \/ Disconnect

SpecQuery == Init /\ [][NextQuery]_vars

\* Records of concurrent inserts.
RaceRecords == {<<Entry("a", Str("x"))>>}

\* Inserts and close() calls of two callers, interleaved at their suspension
\* points.
NextRace ==
    \E c \in Slots :
       \/ InsertStart(c, InsertTables, RaceRecords)
       \/ SenderCreated(c)
       \/ InsertBuild(c)
       \/ InsertFlush(c)
       \/ InsertReturn(c)
       \/ InsertCatch(c)
       \/ CloseStart(c)
       \/ CloseSender(c)
       \/ CloseFinish(c)
       \/ Answered(c)

SpecRace == Init /\ [][NextRace]_vars

\* Records and tables of inserts that share a Sender: they differ in table,
\* fields and event time.
RowRecords ==
    {<<Entry("a", Str("x"))>>,
     <<Entry("b", Bool(TRUE)), Entry("c", Null), Entry("timestamp", Ms(7))>>}

RowTables == {"trades", "quotes"}

\* Concurrent inserts alone: no close() comes between them.
NextRows ==
    \E c \in Slots :
       \/ InsertStart(c, RowTables, RowRecords)
       \/ SenderCreated(c)
       \/ InsertBuild(c)
       \/ InsertFlush(c)
       \/ InsertReturn(c)
       \/ InsertCatch(c)
       \/ Answered(c)

SpecRows == Init /\ [][NextRows]_vars

\* Answers of the endpoint to the stateless tools called beside inserts: a
\* result, a body that is no JSON, and a refused connection.
FrameAnswers ==
    {a \in SysAnswers : a.k = "rejected" \/ (a.ok /\ a.json.k # "null" /\ a.json.dataset.k # "absent")
                                         \/ (a.ok /\ ~a.parses)}

\* The stateless tools called on either slot while the other inserts and
\* closes: a tool call may come before, between, during or after them.
NextFrame ==
    \/ \E c \in Slots :
          \/ QueryTool(c, SysQueries, FrameAnswers)
          \/ ListTablesTool(c, FrameAnswers)
          \/ DescribeTableTool(c, SysNames, FrameAnswers)
          \/ Answered(c)
    \/ \E c \in Serial :
          \/ InsertStart(c, InsertTables, RaceRecords)
          \/ SenderCreated(c)
          \/ InsertBuild(c)
          \/ InsertFlush(c)
          \/ InsertReturn(c)
          \/ InsertCatch(c)
          \/ CloseStart(c)
          \/ CloseSender(c)
          \/ CloseFinish(c)

SpecFrame == Init /\ [][NextFrame]_vars

\* config.ts:6-19: loadConfig() is called on the process environment.
LoadConfigStep ==
    /\ ~config.loaded
    /\ config' = LoadConfig(env)
    /\ UNCHANGED <<sender, senders, connected, transport, streak, clock, lastNow, buffers, db,
                   created, env, calls>>

\* A process started in any environment, before it reads its configuration.
InitConfig ==
    /\ sender = 0
    /\ senders = <<>>
    /\ connected = FALSE
    /\ transport = FALSE
    /\ streak = 0
    /\ clock = 0
    /\ lastNow = 0
    /\ buffers = <<>>
    /\ db = {}
    /\ created = 0
    /\ env \in Envs
    /\ config = NoConfig
    /\ calls = [c \in Slots |-> Idle]

NextConfig == LoadConfigStep

\* loadConfig alone, over the environments.
SpecConfig == InitConfig /\ [][NextConfig]_vars

\* ------------------------------------------------------------------ claims

\* The finished calls of one tool.
Done(c, op) == calls[c].op = op /\ calls[c].pc = "done"

\* The letters of SELECT in either case.
SelectLetters == <<{"S", "s"}, {"E", "e"}, {"L", "l"}, {"E", "e"}, {"C", "c"}, {"T", "t"}>>

\* After leading white space the text reads SELECT, in any case.
BeginsWithSelect(q) ==
    \E lead \in 0..Len(q) :
       /\ \A i \in 1..lead : q[i] \in WhiteSpace
       /\ Len(q) >= lead + 6
       /\ \A i \in 1..6 : q[lead + i] \in SelectLetters[i]

\* C1: a query that, trimmed and upper-cased, does not start with SELECT makes
\* query() fail with no HTTP request issued; one that does start with SELECT
\* issues exactly one HTTP GET.
C1_SelectGate ==
    \A c \in Slots :
       Done(c, "query") =>
          LET cl == calls[c]
          IN  IF BeginsWithSelect(cl.query)
              THEN Len(cl.http) = 1 /\ cl.http[1].method = "GET" /\ cl.http[1].query = cl.query
              ELSE cl.http = <<>> /\ cl.err.thrown /\ cl.out.isError

\* A padded lower-case SELECT went out as one GET.
C1_Witness ==
    \E c \in Slots :
       /\ Done(c, "query")
       /\ calls[c].query = <<"\n", "\t", "s", "e", "l", "e", "c", "t", " ", "1", " ">>
       /\ Len(calls[c].http) = 1

\* The identifier pattern ^[A-Za-z_][A-Za-z0-9_]*$, read off character by character.
IdentifierStart ==
    {"a", "b", "c", "d", "e", "f", "g", "h", "i", "j", "k", "l", "m", "n", "o", "p", "q",
     "r", "s", "t", "u", "v", "w", "x", "y", "z", "A", "B", "C", "D", "E", "F", "G", "H",
     "I", "J", "K", "L", "M", "N", "O", "P", "Q", "R", "S", "T", "U", "V", "W", "X", "Y",
     "Z", "_"}

MatchesIdentifier(name) ==
    /\ Len(name) >= 1
    /\ name[1] \in IdentifierStart
    /\ \A i \in 2..Len(name) : name[i] \in IdentifierStart \cup Digits

\* C2: for a table name matching the identifier pattern describeTable issues
\* exactly one introspection query, which passes the SELECT gate; for any
\* other name it fails before any query is issued.
C2_DescribeGate ==
    \A c \in Slots :
       Done(c, "describe_table") =>
          LET cl == calls[c]
          IN  IF MatchesIdentifier(cl.name)
              THEN /\ Len(cl.http) = 1
                   /\ BeginsWithSelect(cl.http[1].query)
                   /\ Contains(cl.http[1].query, <<"'">> \o cl.name \o <<"'">>)
              ELSE cl.http = <<>> /\ cl.err.thrown /\ cl.out.isError

\* A name with a quote after a letter was refused with no request.
C2_Witness ==
    \E c \in Slots :
       /\ Done(c, "describe_table")
       /\ calls[c].name = <<"t", "'">>
       /\ calls[c].http = <<>>
       /\ calls[c].out.isError

ToolOps == {"query", "insert", "list_tables", "describe_table"}

\* C3: whatever error the adapter operation of a tool handler throws, the
\* handler returns an envelope with isError true and the text "Error: " followed
\* by the error's message; no handler throws.
C3_ErrorEnvelope ==
    \A c \in Slots :
       LET cl == calls[c]
       IN  (cl.op \in ToolOps /\ cl.pc = "done") =>
              /\ ~cl.esc
              /\ cl.out.returned
              /\ cl.err.thrown =>
                    /\ cl.out.isError
                    /\ cl.out.text = <<"Error: ">> \o (IF cl.err.inst THEN cl.err.msg ELSE cl.err.val)

\* An insert whose flush threw a value that is no Error, answered with an
\* error envelope while the protocol channel refused the log entry.
C3_Witness ==
    \E c \in Slots :
       LET cl == calls[c]
       IN  /\ Done(c, "insert")
           /\ cl.err.thrown /\ ~cl.err.inst
           /\ cl.out.isError
           /\ connected
           /\ cl.logs[Len(cl.logs)].level = "error"
           /\ cl.logs[Len(cl.logs)].via = "console"

\* C4: close() twice in succession raises no error, the second call makes no
\* flush or close call on any Sender, and an insert after them creates a fresh
\* Sender and goes on with it.
C4_CloseIdempotent ==
    \A c \in Slots :
       LET cl == calls[c]
       IN  /\ (cl.op = "close" /\ cl.pc = "done") => (sender = 0 /\ ~cl.esc)
           /\ (cl.op = "close" /\ cl.pre >= 1) => (cl.pc = "done" /\ cl.ops = <<>>)
           /\ (cl.op = "insert" /\ cl.pre = 2 /\ cl.pc # "creating") =>
                 /\ cl.ops # <<>>
                 /\ cl.ops[1].op = "fromConfig"
                 /\ cl.ops[1].ok =>
                       /\ cl.snd = cl.ops[1].sid
                       /\ cl.snd = sender
                       /\ senders[cl.snd] = "open"
                       /\ \A i \in 1..Len(cl.ops) : cl.ops[i].sid = cl.snd

\* After a Sender was closed and close() ran twice, an insert went through on a
\* second Sender.
C4_Witness ==
    \E c \in Slots :
       /\ Done(c, "insert")
       /\ calls[c].pre = 2
       /\ ~calls[c].out.isError
       /\ senders = <<"closed", "open">>
       /\ sender = 2

\* The column calls an insert made, in call order.
IsColumnCall(call) ==
    call.op \in {"symbol", "intColumn", "floatColumn", "booleanColumn", "stringColumn"}

ColumnCallsOf(cl) == SelectSeq(cl.ops, IsColumnCall)

\* The calls of an insert that close the row.
ClosingCallsOf(cl) == {i \in 1..Len(cl.ops) : cl.ops[i].op \in {"at", "atNow"}}

\* The fields of a record that are to become columns.
IsField(e) == e.key # "timestamp" /\ e.val.k \notin {"null", "undefined"}

FieldsOf(data) == SelectSeq(data, IsField)

\* The column kind of a value, in the order the policy fixes.
KindOf(v) ==
    IF v.k = "string" THEN "symbol"
    ELSE IF v.k = "number" /\ v.s # "NaN" /\ v.n % 10 = 0 THEN "intColumn"
    ELSE IF v.k = "number" THEN "floatColumn"
    ELSE IF v.k = "boolean" THEN "booleanColumn"
    ELSE "symbol"

\* The value a column of that kind carries.
CarriedBy(v) == IF v.k \in {"string", "number", "boolean"} THEN v ELSE Str(JsString(v))

\* C5: for every non-null field other than `timestamp`, insert makes exactly
\* one column call, in field order, of the kind the value fixes: string ->
\* symbol, integral number -> integer column, other number -> float column,
\* boolean -> boolean column, anything else -> symbol of the stringified
\* value; it never makes a free-text string column call.  Calls made before
\* a Sender call throws are a prefix of these; a row that reached its closing
\* call has them all.
C5_ColumnKinds ==
    \A c \in Slots :
       LET cl == calls[c]
           made == ColumnCallsOf(cl)
           fields == FieldsOf(cl.data)
       IN  cl.op = "insert" =>
              /\ Len(made) <= Len(fields)
              /\ ClosingCallsOf(cl) # {} => Len(made) = Len(fields)
              /\ \A i \in 1..Len(made) :
                    /\ made[i].key = fields[i].key
                    /\ made[i].op = KindOf(fields[i].val)
                    /\ made[i].val = CarriedBy(fields[i].val)
                    /\ made[i].op # "stringColumn"

\* The README's record went in as symbol, integer, float and boolean columns
\* and an event time of its own.
C5_Witness ==
    \E c \in Slots :
       LET cl == calls[c]
       IN  /\ Done(c, "insert")
           /\ ~cl.out.isError
           /\ Len(cl.data) = 5
           /\ [i \in 1..4 |-> ColumnCallsOf(cl)[i].op]
                 = <<"symbol", "intColumn", "floatColumn", "booleanColumn">>
           /\ Len(ColumnCallsOf(cl)) = 4

\* C6: no insert makes a column call for a field whose value is null or
\* undefined, and none makes a column call named `timestamp`, whatever the
\* value of the record's `timestamp` key.
C6_SkippedFields ==
    \A c \in Slots :
       LET cl == calls[c]
       IN  cl.op = "insert" =>
              \A i \in 1..Len(cl.ops) :
                 IsColumnCall(cl.ops[i]) =>
                    /\ cl.ops[i].key # "timestamp"
                    /\ \E j \in 1..Len(cl.data) :
                          /\ cl.data[j].key = cl.ops[i].key
                          /\ cl.data[j].val # Null
                          /\ cl.data[j].val # Undefined

\* A record with a null field, a `timestamp` key and an undefined field went
\* in as the one column of its remaining field.
C6_Witness ==
    \E c \in Slots :
       LET cl == calls[c]
       IN  /\ Done(c, "insert")
           /\ ~cl.out.isError
           /\ Keys(cl.data) = {"a", "timestamp", "b", "c"}
           /\ Get(cl.data, "a") = Null
           /\ Get(cl.data, "b") = Undefined
           /\ Len(ColumnCallsOf(cl)) = 1
           /\ ColumnCallsOf(cl)[1].key = "c"

\* C7: an insert closes its row once: it makes at most one closing call, and
\* exactly one, which took effect, when it goes on to flush.  With a
\* `timestamp` key holding a number the call is at(that number, "ms"); holding
\* a string it is at(Date.parse of the string, "ms"); without the key it is
\* atNow(), and the time the database gives such a row is not before the time
\* it gave the previous such row.
C7_RowClosedOnce ==
    \A c \in Slots :
       LET cl == calls[c]
           closing == ClosingCallsOf(cl)
           ts == Get(cl.data, "timestamp")
       IN  cl.op = "insert" =>
              /\ Cardinality(closing) <= 1
              /\ (cl.pc \in {"flush", "returned"} \/ (cl.pc = "done" /\ ~cl.err.thrown)) =>
                    \E i \in closing : cl.ops[i].ok /\ cl.ops[i].eff
              /\ \A i \in closing :
                    /\ "timestamp" \notin Keys(cl.data) =>
                          /\ cl.ops[i].op = "atNow"
                          /\ cl.pc \in {"returned", "done"} => cl.now >= cl.prevNow
                    /\ ("timestamp" \in Keys(cl.data) /\ ts.k = "number") =>
                          cl.ops[i] = [cl.ops[i] EXCEPT !.op = "at", !.key = "ms", !.val = ts]
                    /\ ("timestamp" \in Keys(cl.data) /\ ts.k = "string") =>
                          cl.ops[i] = [cl.ops[i] EXCEPT !.op = "at", !.key = "ms",
                                                        !.val = DateParse(ts.s)]

\* After a row without a time of its own got time 1, a record with a date
\* string for a timestamp went in with that date in epoch milliseconds.
C7_Witness ==
    \E c \in Slots :
       LET cl == calls[c]
       IN  /\ Done(c, "insert")
           /\ ~cl.out.isError
           /\ lastNow = 1
           /\ Get(cl.data, "timestamp") = Str("1970-01-02")
           /\ \E i \in ClosingCallsOf(cl) :
                 cl.ops[i].op = "at" /\ cl.ops[i].val = Ms(86400000) /\ cl.ops[i].eff

\* A `timestamp` value that is neither a number nor a date string Date.parse
\* accepts.
InvalidTimestamp(data) ==
    LET ts == Get(data, "timestamp")
    IN  /\ "timestamp" \in Keys(data)
        /\ ts.k \notin {"number", "undefined"}
        /\ ~(ts.k = "string" /\ DateParse(ts.s) # NaN)

\* C8: when the record's `timestamp` value is neither a number nor a parseable
\* date string, insert fails and the insert tool answers with an isError
\* envelope; no closing call takes effect and the call never comes to flush.
C8_InvalidTimestampFails ==
    \A c \in Slots :
       LET cl == calls[c]
       IN  (cl.op = "insert" /\ InvalidTimestamp(cl.data)) =>
              /\ cl.pc \notin {"flush", "returned"}
              /\ \A i \in ClosingCallsOf(cl) : ~cl.ops[i].eff
              /\ \A i \in 1..Len(cl.ops) : cl.ops[i].op # "flush"
              /\ cl.pc = "done" => (cl.err.thrown /\ cl.out.isError)

\* The first cells of the rows of a dataset, in row order.
RECURSIVE FirstCells(_)
FirstCells(rows) ==
    IF rows = <<>>
    THEN <<>>
    ELSE <<IF Head(rows) = <<>> THEN Undefined ELSE Head(Head(rows))>> \o FirstCells(Tail(rows))

\* C9: listTables issues its one fixed SELECT as a JSON query; when the
\* endpoint answers it with a result whose dataset is an array, listTables
\* returns the first cell of every row in dataset order; when the result is
\* null, has no dataset or has a dataset that is no array, it returns the empty
\* sequence and throws nothing.
C9_ListTables ==
    \A c \in Slots :
       Done(c, "list_tables") =>
          LET cl == calls[c]
              result == cl.net.json
          IN  /\ cl.http = <<[method |-> "GET", path |-> "/exec",
                              query |-> ListTablesQuery, fmt |-> "json"]>>
              /\ BeginsWithSelect(cl.http[1].query)
              /\ (cl.net.k = "response" /\ cl.net.ok /\ cl.net.parses) =>
                    /\ ~cl.err.thrown
                    /\ ~cl.out.isError
                    /\ cl.ret.k = "list"
                    /\ cl.ret.list = IF result.k = "object" /\ result.dataset.k = "array"
                                     THEN FirstCells(result.dataset.rows)
                                     ELSE <<>>

\* Two rows of two cells each came back as their two first cells, in order.
C9_Witness ==
    \E c \in Slots :
       /\ Done(c, "list_tables")
       /\ calls[c].net.json.k = "object"
       /\ calls[c].net.json.dataset.k = "array"
       /\ calls[c].net.json.dataset.rows = <<<<Str("t2"), Str("t1")>>, <<Str("t1"), Str("t2")>>>>
       /\ calls[c].ret.list = <<Str("t2"), Str("t1")>>

\* C10: when the endpoint answers a query with a non-success status, query()
\* throws an error whose message holds the status code and the response body,
\* and the query tool returns an envelope with isError true whose text holds
\* them too; the handler does not throw.
C10_HttpFailure ==
    \A c \in Slots :
       LET cl == calls[c]
       IN  (Done(c, "query") /\ cl.http # <<>> /\ cl.net.k = "response" /\ ~cl.net.ok) =>
              /\ cl.err.thrown
              /\ cl.err.inst
              /\ Contains(cl.err.msg, <<ToString(cl.net.status)>>)
              /\ Contains(cl.err.msg, cl.net.text)
              /\ ~cl.esc
              /\ cl.out.returned
              /\ cl.out.isError
              /\ Contains(cl.out.text, <<ToString(cl.net.status)>>)
              /\ Contains(cl.out.text, cl.net.text)
              /\ cl.ret.k = "none"

\* A 400 with an error body was answered with an error envelope.
C10_Witness ==
    \E c \in Slots :
       LET cl == calls[c]
       IN  /\ Done(c, "query")
           /\ cl.net.k = "response"
           /\ cl.net.status = 400
           /\ cl.net.text # <<>>
           /\ cl.out.isError
           /\ Contains(cl.out.text, cl.net.text)

\* C11: an insert tool call is all-or-nothing: when it ends with an error
\* envelope, the row of its record is not in the database, having come there
\* neither through the call itself nor through a flush of a later insert or
\* close on the same adapter.
C11_AllOrNothing ==
    /\ Stale \notin db
    /\ \A c \in Slots :
          (Done(c, "insert") /\ calls[c].out.isError) => c \notin db

\* The calls a shutdown() made to close the protocol server.
ServerCloseCallsOf(cl) == {i \in 1..Len(cl.ops) : cl.ops[i].op = "serverClose"}

\* C12: when shutdown() has returned and the protocol server was connected
\* when it began, the server is connected no longer, however the connection
\* was made (unless the attempt to close it threw).
C12_ShutdownClosesTransport ==
    \A c \in Slots :
       LET cl == calls[c]
       IN  (Done(c, "shutdown") /\ cl.conn0) =>
              \/ ~cl.conn1
              \/ \E i \in ServerCloseCallsOf(cl) : ~cl.ops[i].ok

\* A member of a result that is there.
Present(json) == json.k # "absent"

\* A member of a result, or the empty sequence in its absence.
OrEmpty(json) == IF Present(json) THEN json ELSE JsonArray(<<>>)

\* C13: the query tool asks for json when no format is given.  When query()
\* succeeds with json and a result object, the tool returns structuredContent
\* {query, dataset, count, columns}: query is the input, dataset and columns
\* are the result's or else empty, count is the result's count when it has one
\* and else the length of the dataset.  With csv it returns the raw text and
\* no structuredContent.
C13_QueryShape ==
    \A c \in Slots :
       LET cl == calls[c]
           format == IF cl.format = "" THEN "json" ELSE cl.format
           r == cl.ret.json
       IN  (Done(c, "query") /\ ~cl.err.thrown) =>
              /\ cl.http[1].fmt = format
              /\ (format = "json" /\ r.k = "object") =>
                    /\ ~cl.out.isError
                    /\ cl.out.structured =
                          [k |-> "query", query |-> cl.query,
                           dataset |-> OrEmpty(r.dataset),
                           count |-> IF Present(r.count)
                                     THEN r.count
                                     ELSE JsonNumber(Len(OrEmpty(r.dataset).rows)),
                           columns |-> OrEmpty(r.columns)]
              /\ format = "csv" =>
                    /\ ~cl.out.isError
                    /\ cl.out.text = cl.net.text
                    /\ cl.out.structured = NoStructured

\* A JavaScript value that is an integer.
IsWholeNumber(v) == v.k = "number" /\ v.s # "NaN" /\ v.n % 10 = 0

\* C14: loadConfig returns host "localhost" when QUESTDB_HOST is unset and
\* port 9000 when QUESTDB_PORT is unset, and in every environment the port,
\* and each flush setting that is present, is an integer.
C14_ConfigIntegers ==
    config.loaded =>
       /\ ~env.QUESTDB_HOST.set => config.host = <<"localhost">>
       /\ ~env.QUESTDB_PORT.set => config.port = Num(90000)
       /\ IsWholeNumber(config.port)
       /\ config.autoFlushRows # Undefined => IsWholeNumber(config.autoFlushRows)
       /\ config.autoFlushInterval # Undefined => IsWholeNumber(config.autoFlushInterval)

\* The Sender objects created since close() last returned that are open.
LiveSenders ==
    {i \in (Len(senders) - created + 1)..Len(senders) : senders[i] = "open"}

\* C15: between two consecutive close() calls, and from the start to the
\* first, the adapter creates a Sender at most once and has at most one live
\* Sender, however concurrent insert calls interleave.
C15_OneSender ==
    /\ created <= 1
    /\ Cardinality(LiveSenders) <= 1

Buffered == UNION {buffers[i].held : i \in 1..Len(buffers)}

\* C17: an insert call that answers without error made a flush call on its
\* Sender that succeeded, as its last Sender call and after the call that
\* closed its row; when it answers, its row has been delivered and no Sender
\* holds it unsent.
C17_FlushedBeforeReturn ==
    \A c \in Slots :
       LET cl == calls[c]
           n == Len(cl.ops)
       IN  (Done(c, "insert") /\ cl.out.returned /\ ~cl.out.isError) =>
              /\ n >= 2
              /\ cl.ops[n].op = "flush" /\ cl.ops[n].ok /\ cl.ops[n].sid = cl.snd
              /\ cl.ops[n - 1].op \in {"at", "atNow"} /\ cl.ops[n - 1].eff
              /\ \A i \in 1..(n - 1) : cl.ops[i].op # "flush"
              /\ c \in db
              /\ c \notin Buffered

\* An insert answered without error on a Sender whose earlier flush had
\* failed and left a row behind: the one flush delivered both.
C17_Witness ==
    \E c \in Slots :
       /\ Done(c, "insert")
       /\ calls[c].out.returned
       /\ ~calls[c].out.isError
       /\ {c, Stale} \subseteq db
       /\ Buffered = {}

\* The entries of a call's log that Logger.info or Logger.error wrote.
LoggerEntriesOf(cl) == {i \in 1..Len(cl.logs) : cl.logs[i].path # "direct"}

\* C18: no call of Logger.info or Logger.error throws.  With the server
\* connected at the call the message goes to the protocol channel, unless that
\* send fails, and then it goes to the local error stream; with the server not
\* connected it goes to the local error stream.  Every tool call answers,
\* whatever became of its log messages, and answers isError only when its
\* adapter operation or its handler's own code threw.
C18_LoggerNeverThrows ==
    \A c \in Slots :
       LET cl == calls[c]
       IN  /\ \A i \in LoggerEntriesOf(cl) :
                 LET entry == cl.logs[i]
                 IN  /\ ~entry.threw
                     /\ entry.via = (IF entry.conn /\ entry.path = "try" THEN "mcp" ELSE "console")
                     /\ entry.path = "catch" => entry.conn
           /\ (cl.op \in ToolOps /\ cl.pc = "done") =>
                 /\ ~cl.esc
                 /\ cl.out.returned
                 /\ cl.out.isError => (cl.err.thrown \/ cl.caught.thrown)

\* An insert succeeded while the send of its log message on the protocol
\* channel failed: the message went to the local error stream and the call
\* answered success.
C18_Witness ==
    \E c \in Slots :
       LET cl == calls[c]
       IN  /\ Done(c, "insert")
           /\ ~cl.err.thrown
           /\ cl.out.returned /\ ~cl.out.isError
           /\ cl.logs # <<>>
           /\ cl.logs[Len(cl.logs)].path = "catch"
           /\ cl.logs[Len(cl.logs)].via = "console"
           /\ cl.logs[Len(cl.logs)].level = "info"

\* The place of a step of shutdown() in the order the claim gives.
StepRank(op) == CASE op = "flush" -> 1 [] op = "close" -> 2 [] op = "serverClose" -> 3 [] OTHER -> 0

\* The steps of a shutdown() so far are in the claimed order, each at most
\* once, and nothing has escaped it.
ShutdownInOrder(cl) ==
    /\ \A i \in 1..Len(cl.ops) : StepRank(cl.ops[i].op) # 0
    /\ \A i, j \in 1..Len(cl.ops) : i < j => StepRank(cl.ops[i].op) < StepRank(cl.ops[j].op)
    /\ ~cl.esc
    /\ ~cl.err.thrown

\* C19: the steps of shutdown() come in the order Sender flush, Sender close,
\* transport close; shutdown() throws nothing; and when it returns with the
\* test that guards the transport close satisfied at its last step, the
\* transport close was attempted, whether or not the Sender steps failed.
C19_ShutdownOrder ==
    [][\A c \in Slots :
          LET cl == calls'[c]
          IN  cl.op = "shutdown" =>
                 /\ ShutdownInOrder(cl)
                 /\ (calls[c].pc # "done" /\ cl.pc = "done" /\ transport /\ connected) =>
                       /\ cl.ops # <<>>
                       /\ cl.ops[Len(cl.ops)].op = "serverClose"]_vars

\* A shutdown() whose Sender flush failed went on to close the transport.
C19_Witness ==
    \E c \in Slots :
       LET cl == calls[c]
       IN  /\ Done(c, "shutdown")
           /\ cl.caught.thrown
           /\ Len(cl.ops) = 2
           /\ cl.ops[1].op = "flush" /\ ~cl.ops[1].ok
           /\ cl.ops[2].op = "serverClose" /\ cl.ops[2].ok
           /\ ~cl.conn1

StatelessOps == {"query", "list_tables", "describe_table"}

\* Two calls of the same stateless tool with the same arguments, the endpoint
\* giving both the same answer.
SameRequest(a, b) ==
    /\ a.op = b.op
    /\ a.query = b.query
    /\ a.format = b.format
    /\ a.name = b.name
    /\ a.net = b.net

\* C20: a call of query, list_tables or describe_table leaves the held Sender,
\* every Sender made so far, their buffers and the database's rows as they
\* were and makes no Sender call; and it answers as any other call of the same
\* tool with the same arguments and the same answer from the endpoint does,
\* whether a Sender was held or not and whatever ran before or beside it.
C20_StatelessTools ==
    [][\A c \in Slots :
          LET cl == calls'[c]
          IN  (cl.op \in StatelessOps /\ calls[c].pc # "done" /\ cl.pc = "done") =>
                 /\ sender' = sender
                 /\ senders' = senders
                 /\ buffers' = buffers
                 /\ db' = db
                 /\ created' = created
                 /\ cl.ops = <<>>
                 /\ cl.snd = 0
                 /\ \A d \in Slots \ {c} :
                       (calls'[d].pc = "done" /\ SameRequest(cl, calls'[d])) =>
                          /\ calls'[d].out = cl.out
                          /\ calls'[d].http = cl.http
                          /\ calls'[d].ret = cl.ret]_vars

\* The same query answered twice alike: once right after a close(), with no
\* Sender held, and once with the Sender an insert had made in between.
C20_Witness ==
    /\ sender # 0
    /\ Done(1, "query")
    /\ Done(2, "query")
    /\ SameRequest(calls[1], calls[2])
    /\ calls[1].pre = 0
    /\ calls[2].pre = 1
    /\ calls[1].out = calls[2].out
    /\ ~calls[1].out.isError

\* Call c makes Sender calls in this step.
MakesSenderCalls(c) == Len(calls'[c].ops) > Len(calls[c].ops)

\* C21: an insert makes no call (table, a column, at, atNow, flush) on a
\* Sender that has been closed, however its steps fall between those of a
\* close().
C21_NoUseAfterClose ==
    [][\A c \in Slots :
          (calls[c].op = "insert" /\ calls[c].snd # 0 /\ MakesSenderCalls(c)) =>
             senders[calls[c].snd] # "closed"]_vars

\* No call is in flight and the operation that finished last was a close().
QuietAfterClose ==
    /\ \A c \in Slots : calls[c].pc \in {"idle", "done"}
    /\ streak >= 1

\* Every Sender made so far has been closed and none is held.
AllSendersClosed ==
    /\ sender = 0
    /\ \A i \in 1..Len(senders) : senders[i] = "closed"

\* Call c calls close() on the held Sender in this step.
ClosesHeldSender(c) ==
    /\ calls[c].pc = "closeSender"
    /\ sender # 0
    /\ Len(calls'[c].ops) > Len(calls[c].ops)

\* C22: however close() calls and inserts interleave, close() is called on no
\* Sender that is closed already, and whenever no call is in flight and a
\* close() was the last operation to finish, every Sender made so far has been
\* closed and none is held.
C22_ClosedOnce ==
    [][/\ \A c \in Slots : ClosesHeldSender(c) => senders[sender] # "closed"
       /\ QuietAfterClose' => AllSendersClosed']_vars

\* The Sender calls call c makes in this step.
CallsMade(c) == SubSeq(calls'[c].ops, Len(calls[c].ops) + 1, Len(calls'[c].ops))

\* Call c closes a row in this step.
ClosesRow(c) ==
    /\ calls[c].op = "insert"
    /\ MakesSenderCalls(c)
    /\ \E i \in 1..Len(CallsMade(c)) :
          CallsMade(c)[i].op \in {"at", "atNow"} /\ CallsMade(c)[i].eff

\* The calls are those of one row of the record `data` for `table`, whole:
\* table(), a column call for each field that is neither null nor the
\* timestamp, and the closing call with the record's event time.
RowOfRecord(made, table, data) ==
    LET fields == FieldsOf(data)
        n == Len(made)
        ts == Get(data, "timestamp")
    IN  /\ n = Len(fields) + 2
        /\ made[1].op = "table" /\ made[1].key = table
        /\ \A i \in 1..Len(fields) :
              /\ IsColumnCall(made[i + 1])
              /\ made[i + 1].key = fields[i].key
              /\ made[i + 1].val = CarriedBy(fields[i].val)
        /\ IF "timestamp" \in Keys(data)
           THEN made[n].op = "at" /\ made[n].val = ts
           ELSE made[n].op = "atNow"

\* C23: with inserts in flight together on one Sender, a call that closes a
\* row finds no row under construction on its Sender and makes, in the one
\* step and all on that Sender, the calls of the row of its own record:
\* table() with its table, the column calls of its non-null fields other than
\* the timestamp, and the closing call with its event time.
C23_RowsNotInterleaved ==
    [][\A c \in Slots :
          ClosesRow(c) =>
             /\ ~buffers[calls[c].snd].open
             /\ RowOfRecord(CallsMade(c), calls[c].table, calls[c].data)
             /\ \A i \in 1..Len(CallsMade(c)) : CallsMade(c)[i].sid = calls[c].snd
             /\ \A d \in Slots \ {c} : ~MakesSenderCalls(d)]_vars

\* Two inserts of different records for different tables are in flight on
\* the same Sender, each with its row closed and neither flushed yet.
C23_Witness ==
    /\ calls[1].op = "insert" /\ calls[1].pc = "flush"
    /\ calls[2].op = "insert" /\ calls[2].pc = "flush"
    /\ calls[1].snd = calls[2].snd
    /\ calls[1].data # calls[2].data
    /\ calls[1].table # calls[2].table
    /\ buffers[calls[1].snd].held = {1, 2}

\* C24: with inserts in flight together on one Sender, the row of an insert
\* call that answers success has reached the database: it was not lost with
\* a flush of another call that failed.
C24_SuccessMeansDelivered ==
    \A c \in Slots :
       (Done(c, "insert") /\ calls[c].out.returned /\ ~calls[c].out.isError) => c \in db

====
